---- MODULE Spec2Model ----
(***************************************************************************)
(* Model of the care-plan contract (contracts/care-plan/src/lib.rs,        *)
(* storage.rs, types.rs).  The persistent store is one variable per        *)
(* DataKey family; every contract entry point is one action, executed as   *)
(* one host transaction: a returned Err or a trap leaves the store as it   *)
(* was.  `authorized` is whether the last invocation carried the           *)
(* authorization of the address its handler requires, `ret` what it was    *)
(* called with and what it returned, `events` what it published.  `log`    *)
(* is a history variable: what the successful invocations so far were      *)
(* called with and returned, never read by a handler.  `published` is the  *)
(* length of the contract's event stream: how many events all invocations  *)
(* so far have published.                                                  *)
(*                                                                         *)
(* The clinical-guideline contract (contracts/clinical-guideline/src/      *)
(* lib.rs) is a second state machine over its own storage,                 *)
(* `guideline_criteria` (persistent) and `reminders` (temporary), with the *)
(* handlers that read or write it: register_clinical_guideline,            *)
(* evaluate_guideline and create_reminder.  Its four other handlers        *)
(* compute their result from their arguments alone.                        *)
(***************************************************************************)
EXTENDS Integers, Sequences, FiniteSets, TLC

VARIABLES counters, care_plans, goals, interventions, barriers, reviews,
          plan_goals, plan_interventions, plan_barriers, plan_reviews,
          plan_care_team, patient_plans, ledger, authorized, ret, events,
          published, log, guideline_criteria, reminders

store == <<counters, care_plans, goals, interventions, barriers, reviews,
           plan_goals, plan_interventions, plan_barriers, plan_reviews,
           plan_care_team, patient_plans>>

vars == <<counters, care_plans, goals, interventions, barriers, reviews,
          plan_goals, plan_interventions, plan_barriers, plan_reviews,
          plan_care_team, patient_plans, ledger, authorized, ret, events,
          published, log, guideline_criteria, reminders>>

\* The storage of the clinical-guideline contract.
guideline_store == <<guideline_criteria, reminders>>

----------------------------------------------------------------------------
(* Bounds of the model.                                                    *)

\* Records the store may hold in all: plans, goals, interventions, barriers,
\* reviews, roster entries and progress entries together.
MaxRecords == 3

----------------------------------------------------------------------------
(* Fixed-width unsigned integers.  A u64 is four 16-bit limbs, a u32 two,  *)
(* least significant first, so that 2^64 arithmetic is exact.              *)

Base == 2 ^ 16

SECONDS_PER_DAY == 86400

Zeros(n) == [i \in 1..n |-> 0]

\* `x as u64` of a u32, and a small natural as a u64 / u32 literal.
AsU64(x) == x \o Zeros(4 - Len(x))
U64(n) == <<n % Base, n \div Base, 0, 0>>
U32(n) == <<n % Base, n \div Base>>
U64_MAX == <<Base - 1, Base - 1, Base - 1, Base - 1>>
U32_MAX == <<Base - 1, Base - 1>>

RECURSIVE AddFrom(_, _, _, _)
AddFrom(a, b, i, c) ==
    IF i > Len(a) THEN <<c>>
    ELSE LET s == a[i] + b[i] + c
         IN  <<s % Base>> \o AddFrom(a, b, i + 1, s \div Base)

\* The exact sum of two numbers of n limbs, as n + 1 limbs.
WideAdd(a, b) == AddFrom(a, b, 1, 0)

RECURSIVE MulFrom(_, _, _, _)
MulFrom(a, k, i, c) ==
    IF i > Len(a) THEN <<c>>
    ELSE LET s == a[i] * k + c
         IN  <<s % Base>> \o MulFrom(a, k, i + 1, s \div Base)

\* The exact product of a number of n limbs and k < 2^15, as n + 1 limbs.
MulSmall(a, k) == MulFrom(a, k, 1, 0)

\* The exact product x * 86_400 of a u64 x, as seven limbs:
\* x * (86_400 % 2^16) + (x * (86_400 \div 2^16)) * 2^16.
WideMulDay(x) ==
    WideAdd(MulSmall(x, SECONDS_PER_DAY % Base) \o <<0>>,
            <<0>> \o MulSmall(x, SECONDS_PER_DAY \div Base))

Low64(w) == SubSeq(w, 1, 4)
Fits64(w) == \A i \in 5..Len(w) : w[i] = 0

\* Option<T>: None is the empty sequence, Some(v) the sequence of v alone.
None == <<>>
Some(v) == <<v>>

----------------------------------------------------------------------------
(* Values the callers and the ledger supply.                               *)

\* Close times of the ledgers the invocations run in, in order:
\* env.ledger().timestamp() is LedgerTimes[ledger].
LedgerTimes == <<U64(5000), U64(9000)>>

\* Arguments of create_care_plan: (patient_id, provider_id, plan_type,
\* conditions, goals, start_date, review_frequency_days).
CreateInputs ==
    { [patient_id |-> "alice", provider_id |-> "drgrey", plan_type |-> "chronic",
       conditions |-> <<"diabetes">>, goals |-> <<"hba1c">>,
       start_date |-> U64(1000), review_frequency_days |-> U32(7)],
      [patient_id |-> "bob", provider_id |-> "drgrey", plan_type |-> "post_op",
       conditions |-> <<>>, goals |-> <<>>,
       start_date |-> U64_MAX, review_frequency_days |-> U32_MAX] }

----------------------------------------------------------------------------
(* storage.rs: persistent storage.  A key family is a function whose       *)
(* domain is the set of keys that are set.                                 *)

\* storage().persistent().set(key, value)
Set(m, k, v) == [x \in DOMAIN m \cup {k} |-> IF x = k THEN v ELSE m[x]]

\* storage().persistent().get(key): Option
Get(m, k) == IF k \in DOMAIN m THEN Some(m[k]) ELSE None

\* Option::unwrap_or
UnwrapOr(o, d) == IF o = None THEN d ELSE o[1]

\* The five counter helpers: read the counter (0 when unset), add one; the
\* caller stores the result under the counter's key and uses it as the id.
next_care_plan_id(c) == c + 1

SkippingGoalId(c) == c + 2

next_goal_id(c) == c + 1

next_intervention_id(c) == c + 1

next_barrier_id(c) == c + 1

next_review_id(c) == c + 1

SaveOverFirstPlan(m, plan) == Set(m, 1, plan)

save_care_plan(m, plan) == Set(m, plan.care_plan_id, plan)
load_care_plan(care_plan_id) == Get(care_plans, care_plan_id)

save_goal(m, goal) == Set(m, goal.goal_id, goal)
load_goal(goal_id) == Get(goals, goal_id)

SaveOverFirstIntervention(m, intervention) == Set(m, 1, intervention)

save_intervention(m, intervention) == Set(m, intervention.intervention_id, intervention)
load_intervention(intervention_id) == Get(interventions, intervention_id)

save_barrier(m, barrier) == Set(m, barrier.barrier_id, barrier)
load_barrier(barrier_id) == Get(barriers, barrier_id)

save_review(m, review) == Set(m, review.review_id, review)
load_review(review_id) == Get(reviews, review_id)

\* The add_* helpers: load the list (empty when unset), push_back, store it.
add_patient_plan(m, patient_id, care_plan_id) ==
    Set(m, patient_id, Append(UnwrapOr(Get(m, patient_id), <<>>), care_plan_id))

PrependPlanGoal(m, care_plan_id, goal_id) ==
    Set(m, care_plan_id, <<goal_id>> \o UnwrapOr(Get(m, care_plan_id), <<>>))

add_plan_goal(m, care_plan_id, goal_id) ==
    Set(m, care_plan_id, Append(UnwrapOr(Get(m, care_plan_id), <<>>), goal_id))

add_plan_intervention(m, care_plan_id, intervention_id) ==
    Set(m, care_plan_id, Append(UnwrapOr(Get(m, care_plan_id), <<>>), intervention_id))

ListBarrierTwice(m, care_plan_id, barrier_id) ==
    Set(m, care_plan_id,
        UnwrapOr(Get(m, care_plan_id), <<>>) \o <<barrier_id, barrier_id>>)

add_plan_barrier(m, care_plan_id, barrier_id) ==
    Set(m, care_plan_id, Append(UnwrapOr(Get(m, care_plan_id), <<>>), barrier_id))

add_plan_review(m, care_plan_id, review_id) ==
    Set(m, care_plan_id, Append(UnwrapOr(Get(m, care_plan_id), <<>>), review_id))

load_plan_goals(care_plan_id) == UnwrapOr(Get(plan_goals, care_plan_id), <<>>)

load_plan_interventions(care_plan_id) ==
    UnwrapOr(Get(plan_interventions, care_plan_id), <<>>)

load_care_team(care_plan_id) == UnwrapOr(Get(plan_care_team, care_plan_id), <<>>)

save_care_team(m, care_plan_id, team) == Set(m, care_plan_id, team)

\* load_plan_barriers: the stored barrier of every listed id, in list order;
\* an id with no stored record is skipped.
RECURSIVE BarriersFrom(_, _)
BarriersFrom(ids, i) ==
    IF i > Len(ids) THEN <<>>
    ELSE LET b == load_barrier(ids[i])
         IN  (IF b = None THEN <<>> ELSE <<b[1]>>) \o BarriersFrom(ids, i + 1)

UnresolvedBarriersOnly(care_plan_id) ==
    SelectSeq(BarriersFrom(UnwrapOr(Get(plan_barriers, care_plan_id), <<>>), 1),
              LAMBDA b : ~b.resolved)

load_plan_barriers(care_plan_id) ==
    BarriersFrom(UnwrapOr(Get(plan_barriers, care_plan_id), <<>>), 1)

----------------------------------------------------------------------------
(* lib.rs: what an invocation returns.  Ok and Err are the contract's      *)
(* Result; Trap is the host aborting the invocation (a failed require_auth,*)
(* a panic).  The host commits the writes of an invocation only when it    *)
(* returns Ok.                                                             *)

Ok(v) == [kind |-> "Ok", val |-> v]
Err(e) == [kind |-> "Err", val |-> e]
Trap(e) == [kind |-> "Trap", val |-> e]

Unit == "()"

\* Arguments are drawn where a handler first reads them; the record of an
\* invocation that returned before reading them names only what it read.
NoArgs == <<>>

\* address.require_auth(): passes iff the invocation carries the
\* authorization of that address; otherwise the host traps.
AuthNotChecked(auth) == TRUE

require_auth(auth) == auth

\* env.ledger().timestamp()
timestamp == LedgerTimes[ledger]

Call(op, args, now, result) ==
    [op |-> op, args |-> args, now |-> now, result |-> result]

RejectedAfterAllocating(op, args, result) ==
    /\ ret' = Call(op, args, None, result)
    /\ events' = <<>>
    /\ published' = published
    /\ counters' = [counters EXCEPT !.GoalCounter = @ + 1]
    /\ UNCHANGED <<care_plans, goals, interventions, barriers, reviews,
                   plan_goals, plan_interventions, plan_barriers, plan_reviews,
                   plan_care_team, patient_plans, ledger, log, guideline_store>>

\* The invocation returned `result` before its first write: nothing is
\* stored and nothing is published.
Rejected(op, args, result) ==
    /\ ret' = Call(op, args, None, result)
    /\ events' = <<>>
    /\ UNCHANGED <<store, ledger, published, log, guideline_store>>

ReturnedSilently(op, args, now, v, evs) ==
    /\ ret' = Call(op, args, now, Ok(v))
    /\ events' = <<>>
    /\ published' = published
    /\ UNCHANGED <<ledger, guideline_store>>

\* The invocation returned Ok(v) and published `evs`.
Returned(op, args, now, v, evs) ==
    /\ ret' = Call(op, args, now, Ok(v))
    /\ events' = evs
    /\ published' = published + Len(evs)
    /\ UNCHANGED <<ledger, guideline_store>>

Event(topic, data) == [topic |-> topic, data |-> data]

\* Number of records the store holds.
Size ==
    counters.CarePlanCounter + counters.GoalCounter + counters.InterventionCounter
    + counters.BarrierCounter + counters.ReviewCounter
    + Cardinality(UNION {{<<p, i>> : i \in 1..Len(plan_care_team[p])} :
                            p \in DOMAIN plan_care_team})
    + Cardinality(UNION {{<<g, i>> : i \in 1..Len(goals[g].progress_entries)} :
                            g \in DOMAIN goals})

\* Ids a caller may name: the allocated ones and one that is not.
Ids(counter) == 1..(counter + 1)

Logged(m, k) == UnwrapOr(Get(m, k), <<>>)

----------------------------------------------------------------------------
(* create_care_plan                                                        *)

\* base + (review_frequency_days as u64 * 86_400), exactly.
ReviewDateWide(base, review_frequency_days) ==
    WideAdd(base \o <<0, 0, 0>>, WideMulDay(AsU64(review_frequency_days)))

\* The u64 the expression evaluates to when it does not panic.
ReviewDate(base, review_frequency_days) ==
    Low64(ReviewDateWide(base, review_frequency_days))

\* Whether the u64 arithmetic of the expression overflows.
ReviewDateOverflows(base, review_frequency_days) ==
    ~Fits64(ReviewDateWide(base, review_frequency_days))

NewCarePlan(care_plan_id, in, now) ==
    [care_plan_id |-> care_plan_id,
     patient_id |-> in.patient_id,
     provider_id |-> in.provider_id,
     plan_type |-> in.plan_type,
     conditions |-> in.conditions,
     goals |-> in.goals,
     start_date |-> in.start_date,
     review_frequency_days |-> in.review_frequency_days,
     status |-> "Active",
     next_review_date |-> ReviewDate(in.start_date, in.review_frequency_days),
     last_review_date |-> None,
     created_at |-> now]

\* The writes and the event of a plan that is created.
Created(in, care_plan_id, plan) ==
    /\ Size < MaxRecords
    /\ counters' = [counters EXCEPT !.CarePlanCounter = care_plan_id]
    /\ care_plans' = save_care_plan(care_plans, plan)
    /\ patient_plans' = add_patient_plan(patient_plans, in.patient_id, care_plan_id)
    /\ Returned("create_care_plan", in, Some(plan.created_at), care_plan_id,
                <<Event("care_plan_created",
                        <<care_plan_id, in.patient_id, in.provider_id>>)>>)
    /\ log' = [log EXCEPT !.commands = @ + 1,
                          !.created.CarePlan = @ + 1,
                          !.plans = Set(@, care_plan_id, in)]
    /\ UNCHANGED <<goals, interventions, barriers, reviews, plan_goals,
                   plan_interventions, plan_barriers, plan_reviews, plan_care_team>>

\* Whether the build checks integer overflow is not fixed by the sources:
\* with overflow checks the addition panics ("attempt to add with
\* overflow") and the counter written before it is rolled back with the
\* invocation; without them the sum wraps.
create_care_plan ==
    \E auth \in BOOLEAN :
        /\ authorized' = auth
        /\ IF ~require_auth(auth)
           THEN Rejected("create_care_plan", NoArgs, Trap("Auth"))
           ELSE \E in \in CreateInputs :
                LET care_plan_id == next_care_plan_id(counters.CarePlanCounter)
                    plan == NewCarePlan(care_plan_id, in, timestamp)
                IN  IF ReviewDateOverflows(in.start_date, in.review_frequency_days)
                    THEN \E overflow_checks \in BOOLEAN :
                             IF overflow_checks
                             THEN Rejected("create_care_plan", in, Trap("Overflow"))
                             ELSE Created(in, care_plan_id, plan)
                    ELSE Created(in, care_plan_id, plan)

----------------------------------------------------------------------------
(* add_care_goal                                                           *)

GoalInputs ==
    { [provider_id |-> "drgrey", goal_description |-> "walk daily",
       target_value |-> Some("30min"), target_date |-> 60, priority |-> "high"] }

NewCareGoal(goal_id, care_plan_id, in, now) ==
    [goal_id |-> goal_id,
     care_plan_id |-> care_plan_id,
     description |-> in.goal_description,
     target_value |-> in.target_value,
     target_date |-> in.target_date,
     priority |-> in.priority,
     status |-> "Active",
     progress_entries |-> <<>>,
     achievement_date |-> None,
     outcome_notes |-> None,
     created_by |-> in.provider_id,
     created_at |-> now]

\* The writes and the event of a goal that is added.
GoalAdded(care_plan_id, in) ==
    LET goal_id == next_goal_id(counters.GoalCounter)
    IN  /\ Size < MaxRecords
        /\ counters' = [counters EXCEPT !.GoalCounter = goal_id]
        /\ goals' = save_goal(goals,
                              NewCareGoal(goal_id, care_plan_id, in, timestamp))
        /\ plan_goals' = add_plan_goal(plan_goals, care_plan_id, goal_id)
        /\ Returned("add_care_goal", [care_plan_id |-> care_plan_id] @@ in,
                    Some(timestamp), goal_id,
                    <<Event("goal_added", <<care_plan_id, goal_id>>)>>)
        /\ log' = [log EXCEPT
                     !.commands = @ + 1,
                     !.created.Goal = @ + 1,
                     !.goals = Set(@, care_plan_id,
                                   Append(Logged(@, care_plan_id), goal_id))]
        /\ UNCHANGED <<care_plans, interventions, barriers, reviews,
                       plan_interventions, plan_barriers, plan_reviews,
                       plan_care_team, patient_plans>>

AddCareGoalUnchecked ==
    \E care_plan_id \in Ids(counters.CarePlanCounter), auth \in BOOLEAN :
        /\ authorized' = auth
        /\ LET named == [care_plan_id |-> care_plan_id]
           IN  IF ~require_auth(auth)
               THEN Rejected("add_care_goal", named, Trap("Auth"))
               ELSE \E in \in GoalInputs : GoalAdded(care_plan_id, in)

add_care_goal ==
    \E care_plan_id \in Ids(counters.CarePlanCounter), auth \in BOOLEAN :
        /\ authorized' = auth
        /\ LET named == [care_plan_id |-> care_plan_id]
           IN  IF ~require_auth(auth)
               THEN Rejected("add_care_goal", named, Trap("Auth"))
               ELSE IF load_care_plan(care_plan_id) = None
               THEN Rejected("add_care_goal", named, Err("CarePlanNotFound"))
               ELSE \E in \in GoalInputs : GoalAdded(care_plan_id, in)

----------------------------------------------------------------------------
(* add_intervention                                                        *)

InterventionInputs ==
    { [provider_id |-> "drgrey", intervention_type |-> "medication",
       description |-> "metformin", frequency |-> "daily",
       responsible_party |-> "patient"] }

NewIntervention(intervention_id, care_plan_id, in, now) ==
    [intervention_id |-> intervention_id,
     care_plan_id |-> care_plan_id,
     intervention_type |-> in.intervention_type,
     description |-> in.description,
     frequency |-> in.frequency,
     responsible_party |-> in.responsible_party,
     assigned_by |-> in.provider_id,
     created_at |-> now]

\* The writes and the event of an intervention that is added.
InterventionAdded(care_plan_id, in) ==
    LET intervention_id == next_intervention_id(counters.InterventionCounter)
    IN  /\ Size < MaxRecords
        /\ counters' = [counters EXCEPT !.InterventionCounter = intervention_id]
        /\ interventions' =
               save_intervention(interventions,
                   NewIntervention(intervention_id, care_plan_id, in, timestamp))
        /\ plan_interventions' =
               add_plan_intervention(plan_interventions, care_plan_id,
                                     intervention_id)
        /\ Returned("add_intervention", [care_plan_id |-> care_plan_id] @@ in,
                    Some(timestamp), intervention_id,
                    <<Event("intervention_added",
                            <<care_plan_id, intervention_id>>)>>)
        /\ log' = [log EXCEPT
                     !.commands = @ + 1,
                     !.created.Intervention = @ + 1,
                     !.interventions =
                         Set(@, care_plan_id,
                             Append(Logged(@, care_plan_id), intervention_id))]
        /\ UNCHANGED <<care_plans, goals, barriers, reviews, plan_goals,
                       plan_barriers, plan_reviews, plan_care_team, patient_plans>>

add_intervention ==
    \E care_plan_id \in Ids(counters.CarePlanCounter), auth \in BOOLEAN :
        /\ authorized' = auth
        /\ LET named == [care_plan_id |-> care_plan_id]
           IN  IF ~require_auth(auth)
               THEN Rejected("add_intervention", named, Trap("Auth"))
               ELSE IF load_care_plan(care_plan_id) = None
               THEN Rejected("add_intervention", named, Err("CarePlanNotFound"))
               ELSE \E in \in InterventionInputs : InterventionAdded(care_plan_id, in)

----------------------------------------------------------------------------
(* record_goal_progress, mark_goal_achieved                                *)

AchievedNotChecked(status) == FALSE

\* matches!(goal.status, GoalStatus::Achieved)
IsAchieved(status) == status = "Achieved"

AlwaysDiscontinued(status) == TRUE

\* matches!(goal.status, GoalStatus::Discontinued)
IsDiscontinued(status) == status = "Discontinued"

ProgressInputs ==
    { [patient_id |-> "alice", current_value |-> v,
       progress_note |-> "tired", recorded_date |-> d] :
        <<v, d>> \in {<<"20min", 50>>, <<"30min", 60>>} }

EntryOfNextGoal(goal_id, in) ==
    [goal_id |-> goal_id + 1,
     patient_id |-> in.patient_id,
     current_value |-> in.current_value,
     progress_note |-> in.progress_note,
     recorded_date |-> in.recorded_date]

NewProgressEntry(goal_id, in) ==
    [goal_id |-> goal_id,
     patient_id |-> in.patient_id,
     current_value |-> in.current_value,
     progress_note |-> in.progress_note,
     recorded_date |-> in.recorded_date]

\* The write and the event of a progress entry that is recorded.  An entry
\* may be the one record beyond MaxRecords, so that a list of two entries
\* occurs under a plan and a goal.
ProgressRecorded(goal, in) ==
    /\ Size <= MaxRecords
    /\ goals' = save_goal(goals,
                    [goal EXCEPT !.progress_entries =
                                     Append(@, NewProgressEntry(goal.goal_id, in))])
    /\ Returned("record_goal_progress", [goal_id |-> goal.goal_id] @@ in,
                None, Unit,
                <<Event("goal_progress_recorded", <<goal.goal_id, in.patient_id>>)>>)
    /\ UNCHANGED <<counters, care_plans, interventions, barriers, reviews,
                   plan_goals, plan_interventions, plan_barriers, plan_reviews,
                   plan_care_team, patient_plans>>
    /\ log' = [log EXCEPT !.commands = @ + 1]

record_goal_progress ==
    \E goal_id \in Ids(counters.GoalCounter), auth \in BOOLEAN :
        /\ authorized' = auth
        /\ LET named == [goal_id |-> goal_id]
               loaded == load_goal(goal_id)
           IN  IF ~require_auth(auth)
               THEN Rejected("record_goal_progress", named, Trap("Auth"))
               ELSE IF loaded = None
               THEN Rejected("record_goal_progress", named, Err("GoalNotFound"))
               ELSE IF IsAchieved(loaded[1].status)
               THEN Rejected("record_goal_progress", named,
                             Err("GoalAlreadyAchieved"))
               ELSE IF IsDiscontinued(loaded[1].status)
               THEN Rejected("record_goal_progress", named, Err("GoalDiscontinued"))
               ELSE \E in \in ProgressInputs : ProgressRecorded(loaded[1], in)

AchievedInputs ==
    { [provider_id |-> "drgrey", achievement_date |-> d, outcome_notes |-> n] :
        <<d, n>> \in {<<50, "met">>, <<60, "exceeded">>} }

\* The write and the event of a goal that is marked achieved.
GoalAchieved(goal, in) ==
    /\ goals' = save_goal(goals,
                    [goal EXCEPT !.status = "Achieved",
                                 !.achievement_date = Some(in.achievement_date),
                                 !.outcome_notes = Some(in.outcome_notes)])
    /\ Returned("mark_goal_achieved", [goal_id |-> goal.goal_id] @@ in, None, Unit,
                <<Event("goal_achieved", <<goal.goal_id, in.provider_id>>)>>)
    /\ UNCHANGED <<counters, care_plans, interventions, barriers, reviews,
                   plan_goals, plan_interventions, plan_barriers, plan_reviews,
                   plan_care_team, patient_plans>>
    /\ log' = [log EXCEPT !.commands = @ + 1]

mark_goal_achieved ==
    \E goal_id \in Ids(counters.GoalCounter), auth \in BOOLEAN :
        /\ authorized' = auth
        /\ LET named == [goal_id |-> goal_id]
               loaded == load_goal(goal_id)
           IN  IF ~require_auth(auth)
               THEN Rejected("mark_goal_achieved", named, Trap("Auth"))
               ELSE IF loaded = None
               THEN Rejected("mark_goal_achieved", named, Err("GoalNotFound"))
               ELSE IF IsAchieved(loaded[1].status)
               THEN Rejected("mark_goal_achieved", named,
                             Err("GoalAlreadyAchieved"))
               ELSE IF IsDiscontinued(loaded[1].status)
               THEN Rejected("mark_goal_achieved", named, Err("GoalDiscontinued"))
               ELSE \E in \in AchievedInputs : GoalAchieved(loaded[1], in)

----------------------------------------------------------------------------
(* add_barrier, resolve_barrier                                            *)

BarrierInputs ==
    { [reporter |-> "alice", barrier_type |-> "transport",
       description |-> "no car", identified_date |-> 50] }

NewBarrier(barrier_id, care_plan_id, in) ==
    [barrier_id |-> barrier_id,
     care_plan_id |-> care_plan_id,
     reporter |-> in.reporter,
     barrier_type |-> in.barrier_type,
     description |-> in.description,
     identified_date |-> in.identified_date,
     resolved |-> FALSE,
     resolution |-> None,
     resolution_date |-> None,
     resolved_by |-> None]

\* The writes and the event of a barrier that is added.
BarrierAdded(care_plan_id, in) ==
    LET barrier_id == next_barrier_id(counters.BarrierCounter)
    IN  /\ Size < MaxRecords
        /\ counters' = [counters EXCEPT !.BarrierCounter = barrier_id]
        /\ barriers' = save_barrier(barriers,
                                    NewBarrier(barrier_id, care_plan_id, in))
        /\ plan_barriers' = add_plan_barrier(plan_barriers, care_plan_id, barrier_id)
        /\ Returned("add_barrier", [care_plan_id |-> care_plan_id] @@ in,
                    None, barrier_id,
                    <<Event("barrier_added", <<care_plan_id, barrier_id>>)>>)
        /\ log' = [log EXCEPT
                     !.commands = @ + 1,
                     !.created.Barrier = @ + 1,
                     !.barriers = Set(@, care_plan_id,
                                      Append(Logged(@, care_plan_id), barrier_id))]
        /\ UNCHANGED <<care_plans, goals, interventions, reviews, plan_goals,
                       plan_interventions, plan_reviews, plan_care_team,
                       patient_plans>>

add_barrier ==
    \E care_plan_id \in Ids(counters.CarePlanCounter), auth \in BOOLEAN :
        /\ authorized' = auth
        /\ LET named == [care_plan_id |-> care_plan_id]
           IN  IF ~require_auth(auth)
               THEN Rejected("add_barrier", named, Trap("Auth"))
               ELSE IF load_care_plan(care_plan_id) = None
               THEN Rejected("add_barrier", named, Err("CarePlanNotFound"))
               ELSE \E in \in BarrierInputs : BarrierAdded(care_plan_id, in)

ResolveInputs ==
    { [provider_id |-> "drgrey", resolution |-> r, resolution_date |-> d] :
        <<r, d>> \in {<<"bus pass", 50>>, <<"home visits", 60>>} }

\* The write and the event of a barrier that is resolved.
BarrierResolved(barrier, in) ==
    /\ barriers' = save_barrier(barriers,
                       [barrier EXCEPT !.resolved = TRUE,
                                       !.resolution = Some(in.resolution),
                                       !.resolution_date = Some(in.resolution_date),
                                       !.resolved_by = Some(in.provider_id)])
    /\ Returned("resolve_barrier", [barrier_id |-> barrier.barrier_id] @@ in,
                None, Unit,
                <<Event("barrier_resolved", <<barrier.barrier_id, in.provider_id>>)>>)
    /\ UNCHANGED <<counters, care_plans, goals, interventions, reviews,
                   plan_goals, plan_interventions, plan_barriers, plan_reviews,
                   plan_care_team, patient_plans>>
    /\ log' = [log EXCEPT !.commands = @ + 1]

ResolvedNotChecked(barrier) == FALSE

\* if barrier.resolved
IsResolved(barrier) == barrier.resolved

resolve_barrier ==
    \E barrier_id \in Ids(counters.BarrierCounter), auth \in BOOLEAN :
        /\ authorized' = auth
        /\ LET named == [barrier_id |-> barrier_id]
               loaded == load_barrier(barrier_id)
           IN  IF ~require_auth(auth)
               THEN Rejected("resolve_barrier", named, Trap("Auth"))
               ELSE IF loaded = None
               THEN Rejected("resolve_barrier", named, Err("BarrierNotFound"))
               ELSE IF IsResolved(loaded[1])
               THEN Rejected("resolve_barrier", named,
                             Err("BarrierAlreadyResolved"))
               ELSE \E in \in ResolveInputs : BarrierResolved(loaded[1], in)

----------------------------------------------------------------------------
(* schedule_care_plan_review, conduct_care_plan_review                     *)

ScheduleInputs ==
    { [provider_id |-> "drgrey", review_date |-> 60, review_type |-> "routine"] }

NewCareReview(review_id, care_plan_id, in) ==
    [review_id |-> review_id,
     care_plan_id |-> care_plan_id,
     scheduled_by |-> in.provider_id,
     review_date |-> in.review_date,
     review_type |-> in.review_type,
     conducted |-> FALSE,
     review_notes_hash |-> None,
     plan_modifications |-> <<>>,
     continue_plan |-> TRUE,
     conducted_by |-> None,
     conducted_at |-> None]

\* The writes and the event of a review that is scheduled.
ReviewScheduled(care_plan_id, in) ==
    LET review_id == next_review_id(counters.ReviewCounter)
    IN  /\ Size < MaxRecords
        /\ counters' = [counters EXCEPT !.ReviewCounter = review_id]
        /\ reviews' = save_review(reviews,
                                  NewCareReview(review_id, care_plan_id, in))
        /\ plan_reviews' = add_plan_review(plan_reviews, care_plan_id, review_id)
        /\ Returned("schedule_care_plan_review",
                    [care_plan_id |-> care_plan_id] @@ in, None, review_id,
                    <<Event("review_scheduled",
                            <<care_plan_id, review_id, in.review_date>>)>>)
        /\ log' = [log EXCEPT !.commands = @ + 1,
                         !.created.Review = @ + 1]
        /\ UNCHANGED <<care_plans, goals, interventions, barriers, plan_goals,
                       plan_interventions, plan_barriers, plan_care_team,
                       patient_plans>>

ScheduleOnActivePlanOnly ==
    \E care_plan_id \in Ids(counters.CarePlanCounter), auth \in BOOLEAN :
        /\ authorized' = auth
        /\ LET named == [care_plan_id |-> care_plan_id]
               loaded == load_care_plan(care_plan_id)
           IN  IF ~require_auth(auth)
               THEN Rejected("schedule_care_plan_review", named, Trap("Auth"))
               ELSE IF loaded = None \/ loaded[1].status # "Active"
               THEN Rejected("schedule_care_plan_review", named,
                             Err("CarePlanNotFound"))
               ELSE \E in \in ScheduleInputs : ReviewScheduled(care_plan_id, in)

schedule_care_plan_review ==
    \E care_plan_id \in Ids(counters.CarePlanCounter), auth \in BOOLEAN :
        /\ authorized' = auth
        /\ LET named == [care_plan_id |-> care_plan_id]
           IN  IF ~require_auth(auth)
               THEN Rejected("schedule_care_plan_review", named, Trap("Auth"))
               ELSE IF load_care_plan(care_plan_id) = None
               THEN Rejected("schedule_care_plan_review", named,
                             Err("CarePlanNotFound"))
               ELSE \E in \in ScheduleInputs : ReviewScheduled(care_plan_id, in)

ConductInputs ==
    { [provider_id |-> "drgrey", review_notes_hash |-> h,
       plan_modifications |-> m, continue_plan |-> c] :
        <<h, m, c>> \in {<<"hash_a", <<"raise dose">>, TRUE>>,
                         <<"hash_b", <<>>, FALSE>>} }

ConductedReviewUnsigned(review, in, conducted_at) ==
    [review EXCEPT !.conducted = TRUE,
                   !.review_notes_hash = Some(in.review_notes_hash),
                   !.plan_modifications = in.plan_modifications,
                   !.continue_plan = in.continue_plan,
                   !.conducted_at = Some(conducted_at)]

\* The review as conducted.
ConductedReview(review, in, conducted_at) ==
    [review EXCEPT !.conducted = TRUE,
                   !.review_notes_hash = Some(in.review_notes_hash),
                   !.plan_modifications = in.plan_modifications,
                   !.continue_plan = in.continue_plan,
                   !.conducted_by = Some(in.provider_id),
                   !.conducted_at = Some(conducted_at)]

ReviewedPlanFromStart(plan, conducted_at, continue_plan) ==
    [plan EXCEPT
       !.last_review_date = Some(conducted_at),
       !.next_review_date = ReviewDate(plan.start_date, plan.review_frequency_days),
       !.status = IF ~continue_plan THEN "Completed" ELSE @]

ReviewedPlanReactivating(plan, conducted_at, continue_plan) ==
    [plan EXCEPT
       !.last_review_date = Some(conducted_at),
       !.next_review_date = ReviewDate(conducted_at, plan.review_frequency_days),
       !.status = IF ~continue_plan THEN "Completed" ELSE "Active"]

\* The cascade into the owning plan: last/next review dates, and Completed
\* when the plan is not continued.
ReviewedPlan(plan, conducted_at, continue_plan) ==
    [plan EXCEPT
       !.last_review_date = Some(conducted_at),
       !.next_review_date = ReviewDate(conducted_at, plan.review_frequency_days),
       !.status = IF ~continue_plan THEN "Completed" ELSE @]

\* The writes and the event of a review that is conducted: the owning plan
\* (when it is stored), then the review.
ReviewConducted(review, in, owner, conducted_at) ==
    /\ care_plans' =
           IF owner # None
           THEN save_care_plan(care_plans,
                               ReviewedPlan(owner[1], conducted_at, in.continue_plan))
           ELSE care_plans
    /\ reviews' = save_review(reviews, ConductedReview(review, in, conducted_at))
    /\ Returned("conduct_care_plan_review", [review_id |-> review.review_id] @@ in,
                Some(conducted_at), Unit,
                <<Event("review_conducted",
                        <<review.review_id, in.provider_id, in.continue_plan>>)>>)
    /\ UNCHANGED <<counters, goals, interventions, barriers, plan_goals,
                   plan_interventions, plan_barriers, plan_reviews, plan_care_team,
                   patient_plans>>
    /\ log' = [log EXCEPT !.commands = @ + 1]

\* The addition at lines 358-359 precedes every write: when it overflows in
\* a build that checks overflow, the invocation traps with nothing stored.
ConductedNotChecked(review) == FALSE

\* if review.conducted
IsConducted(review) == review.conducted

conduct_care_plan_review ==
    \E review_id \in Ids(counters.ReviewCounter), auth \in BOOLEAN :
        /\ authorized' = auth
        /\ LET named == [review_id |-> review_id]
               loaded == load_review(review_id)
               owner == load_care_plan(loaded[1].care_plan_id)
           IN  IF ~require_auth(auth)
               THEN Rejected("conduct_care_plan_review", named, Trap("Auth"))
               ELSE IF loaded = None
               THEN Rejected("conduct_care_plan_review", named, Err("ReviewNotFound"))
               ELSE IF IsConducted(loaded[1])
               THEN Rejected("conduct_care_plan_review", named,
                             Err("ReviewAlreadyConducted"))
               ELSE IF /\ owner # None
                       /\ ReviewDateOverflows(timestamp, owner[1].review_frequency_days)
               THEN \E in \in ConductInputs, overflow_checks \in BOOLEAN :
                        IF overflow_checks
                        THEN Rejected("conduct_care_plan_review", named,
                                      Trap("Overflow"))
                        ELSE ReviewConducted(loaded[1], in, owner, timestamp)
               ELSE \E in \in ConductInputs :
                        ReviewConducted(loaded[1], in, owner, timestamp)

----------------------------------------------------------------------------
(* assign_care_team_member                                                 *)

TeamInputs ==
    { [coordinating_provider |-> "drgrey", team_member |-> m, role |-> r,
       responsibilities |-> <<"follow-up">>] :
        <<m, r>> \in {<<"bob", "nurse">>, <<"alice", "caregiver">>} }

NewCareTeamMember(care_plan_id, in, now) ==
    [care_plan_id |-> care_plan_id,
     team_member |-> in.team_member,
     role |-> in.role,
     responsibilities |-> in.responsibilities,
     assigned_by |-> in.coordinating_provider,
     assigned_at |-> now]

\* The write and the event of a member that is assigned.
TeamMemberAssigned(care_plan_id, in) ==
    LET member == NewCareTeamMember(care_plan_id, in, timestamp)
    IN  /\ Size < MaxRecords
        /\ plan_care_team' =
               save_care_team(plan_care_team, care_plan_id,
                              Append(load_care_team(care_plan_id), member))
        /\ Returned("assign_care_team_member",
                    [care_plan_id |-> care_plan_id] @@ in, Some(timestamp), Unit,
                    <<Event("team_member_assigned",
                            <<care_plan_id, in.team_member>>)>>)
        /\ log' = [log EXCEPT
                     !.commands = @ + 1,
                     !.team = Set(@, care_plan_id,
                                  Append(Logged(@, care_plan_id), member))]
        /\ UNCHANGED <<counters, care_plans, goals, interventions, barriers,
                       reviews, plan_goals, plan_interventions, plan_barriers,
                       plan_reviews, patient_plans>>

assign_care_team_member ==
    \E care_plan_id \in Ids(counters.CarePlanCounter), auth \in BOOLEAN :
        /\ authorized' = auth
        /\ LET named == [care_plan_id |-> care_plan_id]
           IN  IF ~require_auth(auth)
               THEN Rejected("assign_care_team_member", named, Trap("Auth"))
               ELSE IF load_care_plan(care_plan_id) = None
               THEN Rejected("assign_care_team_member", named,
                             Err("CarePlanNotFound"))
               ELSE \E in \in TeamInputs : TeamMemberAssigned(care_plan_id, in)

----------------------------------------------------------------------------
(* get_care_plan_summary                                                   *)

OnlyDiscontinuedIsClosed(g) == g.status # "Discontinued"

\* !matches!(g.status, GoalStatus::Achieved | GoalStatus::Discontinued)
IsOpenGoal(g) == ~(g.status \in {"Achieved", "Discontinued"})

\* The loop over goal_ids: the stored goal of every listed id that is open,
\* in list order; an id with no stored record is skipped.
RECURSIVE ActiveGoalsFrom(_, _)
ActiveGoalsFrom(ids, i) ==
    IF i > Len(ids) THEN <<>>
    ELSE LET g == load_goal(ids[i])
         IN  (IF g # None /\ IsOpenGoal(g[1]) THEN <<g[1]>> ELSE <<>>)
             \o ActiveGoalsFrom(ids, i + 1)

\* The loop over intervention_ids.
RECURSIVE InterventionsFrom(_, _)
InterventionsFrom(ids, i) ==
    IF i > Len(ids) THEN <<>>
    ELSE LET x == load_intervention(ids[i])
         IN  (IF x # None THEN <<x[1]>> ELSE <<>>) \o InterventionsFrom(ids, i + 1)

CarePlanSummary(care_plan_id, plan) ==
    [care_plan_id |-> care_plan_id,
     patient_id |-> plan.patient_id,
     plan_type |-> plan.plan_type,
     active_goals |-> ActiveGoalsFrom(load_plan_goals(care_plan_id), 1),
     interventions |-> InterventionsFrom(load_plan_interventions(care_plan_id), 1),
     care_team |-> load_care_team(care_plan_id),
     barriers |-> load_plan_barriers(care_plan_id),
     last_review_date |-> plan.last_review_date,
     next_review_date |-> plan.next_review_date]

SummaryAllocatingAnId ==
    \E care_plan_id \in Ids(counters.CarePlanCounter), auth \in BOOLEAN :
        /\ authorized' = auth
        /\ LET args == [care_plan_id |-> care_plan_id, requester |-> "alice"]
               loaded == load_care_plan(care_plan_id)
           IN  IF ~require_auth(auth)
               THEN Rejected("get_care_plan_summary", args, Trap("Auth"))
               ELSE IF loaded = None
               THEN Rejected("get_care_plan_summary", args, Err("CarePlanNotFound"))
               ELSE /\ Returned("get_care_plan_summary", args, None,
                                CarePlanSummary(care_plan_id, loaded[1]), <<>>)
                    /\ counters' = [counters EXCEPT !.ReviewCounter = @ + 1]
                    /\ UNCHANGED <<care_plans, goals, interventions, barriers,
                                   reviews, plan_goals, plan_interventions,
                                   plan_barriers, plan_reviews, plan_care_team,
                                   patient_plans, log>>

get_care_plan_summary ==
    \E care_plan_id \in Ids(counters.CarePlanCounter), auth \in BOOLEAN :
        /\ authorized' = auth
        /\ LET args == [care_plan_id |-> care_plan_id, requester |-> "alice"]
               loaded == load_care_plan(care_plan_id)
           IN  IF ~require_auth(auth)
               THEN Rejected("get_care_plan_summary", args, Trap("Auth"))
               ELSE IF loaded = None
               THEN Rejected("get_care_plan_summary", args, Err("CarePlanNotFound"))
               ELSE /\ Returned("get_care_plan_summary", args, None,
                                CarePlanSummary(care_plan_id, loaded[1]), <<>>)
                    /\ UNCHANGED <<store, log>>

----------------------------------------------------------------------------
(* clinical-guideline/src/lib.rs                                           *)

\* BytesN::from_array(&env, &[b; 32])
Bytes32(b) == [i \in 1..32 |-> b]

\* Arguments of register_clinical_guideline.
RegisterInputs ==
    { [admin |-> "admin", guideline_id |-> g, condition |-> "Flu",
       criteria_hash |-> Bytes32(b), recommendation_hash |-> Bytes32(0),
       evidence_level |-> "A"] : g \in {"G123", "G456"}, b \in {0, 1} }

\* Arguments of evaluate_guideline.
EvaluateInputs ==
    { [patient_id |-> "alice", provider_id |-> "drgrey", guideline_id |-> g,
       patient_data_hash |-> Bytes32(b)] : g \in {"G123", "G456"}, b \in {0, 1} }

\* Arguments of create_reminder.
ReminderInputs ==
    { [patient_id |-> p, provider_id |-> "drgrey", reminder_type |-> "lab",
       due_date |-> d, priority |-> "high"] :
        p \in {"alice", "bob"}, d \in {U64(1000), U64_MAX} }

\* The invocation of the clinical-guideline contract returned Ok(v); the
\* contract publishes no event.
GuidelineReturned(op, args, now, v) ==
    /\ ret' = Call(op, args, now, Ok(v))
    /\ events' = <<>>
    /\ UNCHANGED <<store, ledger, published>>

\* Number of registrations that succeeded.
Registrations ==
    Cardinality(UNION {{<<g, i>> : i \in 1..Len(log.registered[g])} :
                          g \in DOMAIN log.registered})

register_clinical_guideline ==
    \E auth \in BOOLEAN :
        /\ authorized' = auth
        /\ IF ~require_auth(auth)
           THEN Rejected("register_clinical_guideline", NoArgs, Trap("Auth"))
           ELSE \E in \in RegisterInputs :
                /\ Registrations < MaxRecords
                /\ guideline_criteria' =
                       Set(guideline_criteria, in.guideline_id, in.criteria_hash)
                /\ GuidelineReturned("register_clinical_guideline", in, None, Unit)
                /\ log' = [log EXCEPT
                             !.registered =
                                 Set(@, in.guideline_id,
                                     Append(Logged(@, in.guideline_id),
                                            in.criteria_hash))]
                /\ UNCHANGED reminders

AlwaysApplicable(stored_hash, patient_data_hash) == TRUE

\* let is_applicable = stored_hash == patient_data_hash;
is_applicable(stored_hash, patient_data_hash) == stored_hash = patient_data_hash

GuidelineRecommendation(guideline_id, applicable) ==
    [guideline_id |-> guideline_id,
     applicable |-> applicable,
     recommendation |-> "Follow Standard Protocol",
     strength |-> "High",
     evidence_level |-> "Level_A",
     alternative_options |-> <<>>]

\* evaluate_guideline requires no authorization.
evaluate_guideline ==
    \E in \in EvaluateInputs, auth \in BOOLEAN :
        /\ authorized' = auth
        /\ LET stored_hash == Get(guideline_criteria, in.guideline_id)
           IN  IF stored_hash = None
               THEN Rejected("evaluate_guideline", in, Err("GuidelineNotFound"))
               ELSE /\ GuidelineReturned(
                           "evaluate_guideline", in, None,
                           GuidelineRecommendation(
                               in.guideline_id,
                               is_applicable(stored_hash[1], in.patient_data_hash)))
                    /\ UNCHANGED <<log, guideline_store>>

\* create_reminder requires no authorization; it writes temporary storage
\* under the patient's address and returns the ledger's close time.
create_reminder ==
    \E in \in ReminderInputs, auth \in BOOLEAN :
        /\ authorized' = auth
        /\ reminders' = Set(reminders, in.patient_id, in.due_date)
        /\ GuidelineReturned("create_reminder", in, Some(timestamp), timestamp)
        /\ UNCHANGED <<log, guideline_criteria>>

----------------------------------------------------------------------------
(* The ledger closes: later invocations read the next close time.          *)

close_ledger ==
    /\ ledger < Len(LedgerTimes)
    /\ ledger' = ledger + 1
    /\ authorized' = TRUE
    /\ ret' = Call("close_ledger", NoArgs, None, Ok(Unit))
    /\ events' = <<>>
    /\ UNCHANGED <<store, published, log, guideline_store>>

----------------------------------------------------------------------------

Init ==
    /\ counters = [CarePlanCounter |-> 0, GoalCounter |-> 0,
                   InterventionCounter |-> 0, BarrierCounter |-> 0,
                   ReviewCounter |-> 0]
    /\ care_plans = <<>>
    /\ goals = <<>>
    /\ interventions = <<>>
    /\ barriers = <<>>
    /\ reviews = <<>>
    /\ plan_goals = <<>>
    /\ plan_interventions = <<>>
    /\ plan_barriers = <<>>
    /\ plan_reviews = <<>>
    /\ plan_care_team = <<>>
    /\ patient_plans = <<>>
    /\ ledger = 1
    /\ authorized = TRUE
    /\ ret = Call("none", NoArgs, None, Ok(Unit))
    /\ events = <<>>
    /\ published = 0
    /\ log = [commands |-> 0,
              created |-> [CarePlan |-> 0, Goal |-> 0, Intervention |-> 0,
                           Barrier |-> 0, Review |-> 0],
              plans |-> <<>>, goals |-> <<>>, interventions |-> <<>>,
              barriers |-> <<>>, team |-> <<>>, registered |-> <<>>]
    /\ guideline_criteria = <<>>
    /\ reminders = <<>>

Next ==
    \/ create_care_plan
    \/ add_care_goal
    \/ add_intervention
    \/ record_goal_progress
    \/ mark_goal_achieved
    \/ add_barrier
    \/ resolve_barrier
    \/ schedule_care_plan_review
    \/ conduct_care_plan_review
    \/ assign_care_team_member
    \/ get_care_plan_summary
    \/ close_ledger

Spec == Init /\ [][Next]_vars

\* The clinical-guideline contract on its own.
GuidelineNext ==
    \/ register_clinical_guideline
    \/ evaluate_guideline
    \/ create_reminder
    \/ close_ledger

GuidelineSpec == Init /\ [][GuidelineNext]_vars

----------------------------------------------------------------------------
(* Properties.                                                             *)

IsOk(r) == r.kind = "Ok"
IsErr(r, e) == r.kind = "Err" /\ r.val = e

\* A number of n limbs as eight limbs, to compare with an exact sum.
Wide(x) == x \o Zeros(8 - Len(x))

\* The step is an invocation of mark_goal_achieved or record_goal_progress
\* that names goal g.
NamesGoal(r, g) ==
    /\ r.op \in {"mark_goal_achieved", "record_goal_progress"}
    /\ r.args.goal_id = g

\* C1: once a goal is Achieved, every step leaves its stored record as it
\* is, and every mark_goal_achieved and record_goal_progress naming it fails,
\* with GoalAlreadyAchieved when the call is authorized.
C1_AchievedGoalIsTerminal ==
    [][\A g \in DOMAIN goals :
          goals[g].status = "Achieved" =>
              /\ g \in DOMAIN goals'
              /\ goals'[g] = goals[g]
              /\ NamesGoal(ret', g) =>
                     /\ ~IsOk(ret'.result)
                     /\ authorized' => IsErr(ret'.result, "GoalAlreadyAchieved")]_vars

\* A progress call was refused on an achieved goal that holds an entry.
C1_Witness ==
    /\ ret.op = "record_goal_progress"
    /\ IsErr(ret.result, "GoalAlreadyAchieved")
    /\ Len(goals[ret.args.goal_id].progress_entries) >= 1
    /\ goals[ret.args.goal_id].achievement_date # None

CounterOf ==
    [CarePlan |-> counters.CarePlanCounter, Goal |-> counters.GoalCounter,
     Intervention |-> counters.InterventionCounter,
     Barrier |-> counters.BarrierCounter, Review |-> counters.ReviewCounter]

StoredIds ==
    [CarePlan |-> DOMAIN care_plans, Goal |-> DOMAIN goals,
     Intervention |-> DOMAIN interventions, Barrier |-> DOMAIN barriers,
     Review |-> DOMAIN reviews]

CreatorOf ==
    [CarePlan |-> "create_care_plan", Goal |-> "add_care_goal",
     Intervention |-> "add_intervention", Barrier |-> "add_barrier",
     Review |-> "schedule_care_plan_review"]

EntityTypes == DOMAIN CreatorOf

\* C2: for each of the five entity types, the creation that just succeeded
\* returned k, the number of successful creations of that type so far; the
\* counter is k and the stored ids are exactly 1..k, whatever failed,
\* unauthorized or other-type invocations came in between.
C2_IdsAreSequential ==
    \A t \in EntityTypes :
        /\ CounterOf[t] = log.created[t]
        /\ StoredIds[t] = 1..log.created[t]
        /\ (ret.op = CreatorOf[t] /\ IsOk(ret.result)) =>
               ret.result.val = log.created[t]

\* A second goal got id 2 in a store that holds one plan and no barrier.
C2_Witness ==
    /\ ret.op = "add_care_goal"
    /\ IsOk(ret.result)
    /\ ret.result.val = 2
    /\ counters.CarePlanCounter = 1
    /\ counters.BarrierCounter = 0

\* C3: an invocation that does not carry the required authorization leaves
\* every counter, record, index list and roster as it was.
C3_UnauthorizedChangesNothing ==
    [][~authorized' => (store' = store /\ ~IsOk(ret'.result))]_vars

\* An unauthorized conduct_care_plan_review named a stored, unconducted review.
C3_Witness ==
    /\ ~authorized
    /\ ret.op = "conduct_care_plan_review"
    /\ ret.args.review_id \in DOMAIN reviews
    /\ ~reviews[ret.args.review_id].conducted

\* C4: an invocation that returns one of the contract's errors leaves every
\* counter, record, index list and roster as it was.
C4_ErrorChangesNothing ==
    [][ret'.result.kind = "Err" => store' = store]_vars

\* resolve_barrier was refused on a resolved barrier.
C4_Witness ==
    /\ IsErr(ret.result, "BarrierAlreadyResolved")
    /\ barriers[ret.args.barrier_id].resolved

\* C5: a successful conduct_care_plan_review at ledger time T leaves the
\* owning plan with last_review_date = T, next_review_date = T +
\* review_frequency_days * 86400 (the exact sum), and status Completed when
\* continue_plan is false, the status it had when it is true.
C5_ReviewCascade ==
    [][(ret'.op = "conduct_care_plan_review" /\ IsOk(ret'.result)) =>
          LET p == reviews'[ret'.args.review_id].care_plan_id
              T == LedgerTimes[ledger]
          IN  /\ p \in DOMAIN care_plans /\ p \in DOMAIN care_plans'
              /\ care_plans'[p].last_review_date = Some(T)
              /\ Wide(care_plans'[p].next_review_date) =
                     ReviewDateWide(T, care_plans[p].review_frequency_days)
              /\ care_plans'[p].status =
                     IF ret'.args.continue_plan THEN care_plans[p].status
                     ELSE "Completed"]_vars

\* A review conducted in the second ledger closed its plan.
C5_Witness ==
    /\ ret.op = "conduct_care_plan_review"
    /\ IsOk(ret.result)
    /\ ~ret.args.continue_plan
    /\ ret.now = Some(LedgerTimes[2])
    /\ care_plans[reviews[ret.args.review_id].care_plan_id].status = "Completed"

\* The last invocation was a create_care_plan that succeeded.
PlanCreated == ret.op = "create_care_plan" /\ IsOk(ret.result)

\* C6: after a successful create_care_plan(start_date = s,
\* review_frequency_days = f) the stored plan has next_review_date equal to
\* the exact sum s + f * 86400, status Active and no last_review_date, and
\* the returned id is listed under the given patient.
C6_CreateStoresReviewDate ==
    PlanCreated =>
        LET id == ret.result.val
            plan == care_plans[id]
        IN  /\ Wide(plan.next_review_date) =
                   ReviewDateWide(ret.args.start_date, ret.args.review_frequency_days)
            /\ plan.status = "Active"
            /\ plan.last_review_date = None
            /\ \E i \in 1..Len(Logged(patient_plans, ret.args.patient_id)) :
                   patient_plans[ret.args.patient_id][i] = id

\* C7: every create_care_plan that carries the provider's authorization
\* succeeds, and the next_review_date it stores is the exact sum
\* start_date + review_frequency_days * 86400.
C7_CreateNeverOverflows ==
    (ret.op = "create_care_plan" /\ authorized) =>
        /\ IsOk(ret.result)
        /\ Wide(care_plans[ret.result.val].next_review_date) =
               ReviewDateWide(ret.args.start_date, ret.args.review_frequency_days)

\* The last invocation was a get_care_plan_summary that succeeded.
SummaryReturned == ret.op = "get_care_plan_summary" /\ IsOk(ret.result)

\* The stored records of the ids in `ids`, in order.
RecordsOf(m, ids) == [i \in 1..Len(ids) |-> m[ids[i]]]

\* C8: the active_goals of a returned summary of plan p are the goals that
\* were added to p, in the order they were added, without those whose status
\* is Achieved or Discontinued; each belongs to p.
C8_ActiveGoalsAreOpenGoals ==
    SummaryReturned =>
        LET p == ret.args.care_plan_id
            active == ret.result.val.active_goals
        IN  /\ active = SelectSeq(RecordsOf(goals, Logged(log.goals, p)),
                                  LAMBDA g : g.status \notin {"Achieved", "Discontinued"})
            /\ \A i \in 1..Len(active) : active[i].care_plan_id = p

\* The summary of a plan with two goals, the first achieved, lists the second.
C8_Witness ==
    /\ SummaryReturned
    /\ Len(Logged(log.goals, ret.args.care_plan_id)) = 2
    /\ goals[log.goals[ret.args.care_plan_id][1]].status = "Achieved"
    /\ Len(ret.result.val.active_goals) = 1
    /\ ret.result.val.active_goals[1].goal_id = log.goals[ret.args.care_plan_id][2]

\* C9: the barriers, interventions and care_team of a returned summary of
\* plan p are the barriers and interventions that were added to p and the
\* members that were assigned to p, all of them, in the order they came;
\* each belongs to p.
C9_SummaryListsAreUnfiltered ==
    SummaryReturned =>
        LET p == ret.args.care_plan_id
            s == ret.result.val
        IN  /\ s.barriers = RecordsOf(barriers, Logged(log.barriers, p))
            /\ s.interventions =
                   RecordsOf(interventions, Logged(log.interventions, p))
            /\ s.care_team = Logged(log.team, p)
            /\ \A i \in 1..Len(s.barriers) : s.barriers[i].care_plan_id = p
            /\ \A i \in 1..Len(s.interventions) : s.interventions[i].care_plan_id = p

\* The summary of a plan with two barriers, the first resolved, lists both.
C9_Witness ==
    /\ SummaryReturned
    /\ Len(ret.result.val.barriers) = 2
    /\ ret.result.val.barriers[1].resolved
    /\ ~ret.result.val.barriers[2].resolved

\* Nothing was added to plan p and no review of it was scheduled.
Childless(p) ==
    /\ Logged(log.goals, p) = <<>>
    /\ Logged(log.interventions, p) = <<>>
    /\ Logged(log.barriers, p) = <<>>
    /\ Logged(log.team, p) = <<>>
    /\ Logged(plan_reviews, p) = <<>>

\* C10: the summary of a plan to which nothing was added since its creation
\* returns the plan's id, the patient id and plan type the creation was
\* called with, next_review_date equal to the exact sum start_date +
\* review_frequency_days * 86400 of the creation's arguments, no
\* last_review_date and four empty lists.
C10_CreateSummaryRoundTrip ==
    (SummaryReturned /\ Childless(ret.args.care_plan_id)) =>
        LET p == ret.args.care_plan_id
            s == ret.result.val
            in == log.plans[p]
        IN  /\ s.care_plan_id = p
            /\ s.patient_id = in.patient_id
            /\ s.plan_type = in.plan_type
            /\ Wide(s.next_review_date) =
                   ReviewDateWide(in.start_date, in.review_frequency_days)
            /\ s.last_review_date = None
            /\ s.active_goals = <<>>
            /\ s.interventions = <<>>
            /\ s.barriers = <<>>
            /\ s.care_team = <<>>

\* The event each mutating command publishes: Symbol::new(&env, ..).
EventOf ==
    [create_care_plan |-> "care_plan_created",
     add_care_goal |-> "goal_added",
     add_intervention |-> "intervention_added",
     record_goal_progress |-> "goal_progress_recorded",
     mark_goal_achieved |-> "goal_achieved",
     add_barrier |-> "barrier_added",
     resolve_barrier |-> "barrier_resolved",
     schedule_care_plan_review |-> "review_scheduled",
     conduct_care_plan_review |-> "review_conducted",
     assign_care_team_member |-> "team_member_assigned"]

MutatingCommands == DOMAIN EventOf

\* The invocation r was a mutating command that succeeded.
Succeeded(r) == r.op \in MutatingCommands /\ IsOk(r.result)

\* C11: a mutating command that succeeds publishes exactly one event, the
\* one named after it, and extends the event stream by one; every other
\* invocation (failed, aborted, get_care_plan_summary) publishes nothing.
\* So the stream always holds as many events as mutating commands have
\* succeeded, the k-th event being that of the k-th such command.
C11_OneEventPerCommand ==
    /\ [](published = log.commands)
    /\ [][IF Succeeded(ret')
          THEN /\ Len(events') = 1
               /\ events'[1].topic = EventOf[ret'.op]
               /\ published' = published + 1
          ELSE /\ events' = <<>>
               /\ published' = published]_vars

\* The third event of the stream announces a conducted review.
C11_Witness ==
    /\ Succeeded(ret)
    /\ ret.op = "conduct_care_plan_review"
    /\ published = 3
    /\ events = <<Event("review_conducted",
                        <<ret.args.review_id, "drgrey", ret.args.continue_plan>>)>>

\* The parameter of each mutating command on which it calls require_auth.
PrincipalOf ==
    [create_care_plan |-> "provider_id",
     add_care_goal |-> "provider_id",
     add_intervention |-> "provider_id",
     record_goal_progress |-> "patient_id",
     mark_goal_achieved |-> "provider_id",
     add_barrier |-> "reporter",
     resolve_barrier |-> "provider_id",
     schedule_care_plan_review |-> "provider_id",
     conduct_care_plan_review |-> "provider_id",
     assign_care_team_member |-> "coordinating_provider"]

\* The positions of the published tuple that hold an Address, and those
\* that hold an entity id (u64), by the types of the values published.
AddressPositions ==
    [care_plan_created |-> {2, 3}, goal_added |-> {}, intervention_added |-> {},
     goal_progress_recorded |-> {2}, goal_achieved |-> {2}, barrier_added |-> {},
     barrier_resolved |-> {2}, review_scheduled |-> {}, review_conducted |-> {2},
     team_member_assigned |-> {2}]

IdPositions ==
    [care_plan_created |-> {1}, goal_added |-> {1, 2}, intervention_added |-> {1, 2},
     goal_progress_recorded |-> {1}, goal_achieved |-> {1}, barrier_added |-> {1, 2},
     barrier_resolved |-> {1}, review_scheduled |-> {1, 2}, review_conducted |-> {1},
     team_member_assigned |-> {1}]

EventAddresses(e) == {e.data[i] : i \in AddressPositions[e.topic]}
EventIds(e) == {e.data[i] : i \in IdPositions[e.topic]}

\* The id of the entity a successful mutating command created or changed.
EntityOf(r) ==
    IF r.op \in {"create_care_plan", "add_care_goal", "add_intervention",
                 "add_barrier", "schedule_care_plan_review"}
    THEN r.result.val
    ELSE IF r.op \in {"record_goal_progress", "mark_goal_achieved"}
    THEN r.args.goal_id
    ELSE IF r.op = "resolve_barrier" THEN r.args.barrier_id
    ELSE IF r.op = "conduct_care_plan_review" THEN r.args.review_id
    ELSE r.args.care_plan_id

\* C12: the event of a mutating command that succeeded carries the id of
\* the entity it created or changed and the address whose authorization the
\* command required.
C12_EventCarriesPrincipal ==
    Succeeded(ret) =>
        /\ Len(events) = 1
        /\ EntityOf(ret) \in EventIds(events[1])
        /\ ret.args[PrincipalOf[ret.op]] \in EventAddresses(events[1])

\* C13: a barrier that is resolved stays resolved with the resolution,
\* resolution date and resolver it has (its record never changes again), and
\* every resolve_barrier naming it fails, with BarrierAlreadyResolved when
\* the call is authorized.
C13_ResolvedBarrierIsFinal ==
    [][\A b \in DOMAIN barriers :
          barriers[b].resolved =>
              /\ b \in DOMAIN barriers'
              /\ barriers'[b] = barriers[b]
              /\ (ret'.op = "resolve_barrier" /\ ret'.args.barrier_id = b) =>
                     /\ ~IsOk(ret'.result)
                     /\ authorized' => IsErr(ret'.result, "BarrierAlreadyResolved")]_vars

\* A second resolution was refused on a barrier resolved by home visits.
C13_Witness ==
    /\ ret.op = "resolve_barrier"
    /\ authorized
    /\ IsErr(ret.result, "BarrierAlreadyResolved")
    /\ barriers[ret.args.barrier_id].resolution = Some("home visits")
    /\ barriers[ret.args.barrier_id].resolution_date = Some(60)
    /\ barriers[ret.args.barrier_id].resolved_by = Some("drgrey")

\* C14: a review that is conducted stays conducted with the notes hash,
\* modifications, continue-plan flag, conducting principal and time it has
\* (its record never changes again), and every conduct_care_plan_review
\* naming it fails, with ReviewAlreadyConducted when the call is authorized,
\* and leaves every plan as it is.
C14_ConductedReviewIsFinal ==
    [][\A r \in DOMAIN reviews :
          reviews[r].conducted =>
              /\ r \in DOMAIN reviews'
              /\ reviews'[r] = reviews[r]
              /\ (ret'.op = "conduct_care_plan_review" /\ ret'.args.review_id = r) =>
                     /\ ~IsOk(ret'.result)
                     /\ care_plans' = care_plans
                     /\ authorized' => IsErr(ret'.result, "ReviewAlreadyConducted")]_vars

\* A second conduct was refused, in the second ledger, on a review that
\* completed its plan in the first.
C14_Witness ==
    /\ ret.op = "conduct_care_plan_review"
    /\ authorized
    /\ IsErr(ret.result, "ReviewAlreadyConducted")
    /\ ledger = 2
    /\ reviews[ret.args.review_id].conducted_at = Some(LedgerTimes[1])
    /\ ~reviews[ret.args.review_id].continue_plan
    /\ care_plans[reviews[ret.args.review_id].care_plan_id].last_review_date
           = Some(LedgerTimes[1])

\* The step is a successful conduct_care_plan_review of a review of plan p.
ConductsReviewOf(p) ==
    /\ ret'.op = "conduct_care_plan_review"
    /\ IsOk(ret'.result)
    /\ ret'.args.review_id \in DOMAIN reviews
    /\ reviews[ret'.args.review_id].care_plan_id = p

\* C15: the record of a stored plan, its next_review_date included, changes
\* only in a step that is a successful conduct_care_plan_review of a review
\* owned by that plan.
C15_PlanChangesOnlyByItsReview ==
    [][\A p \in DOMAIN care_plans :
          /\ p \in DOMAIN care_plans'
          /\ care_plans'[p] # care_plans[p] => ConductsReviewOf(p)]_vars

\* A review of the second plan was conducted: the second plan has a last
\* review date and the first has none.
C15_Witness ==
    /\ ret.op = "conduct_care_plan_review"
    /\ IsOk(ret.result)
    /\ reviews[ret.args.review_id].care_plan_id = 2
    /\ care_plans[2].last_review_date = Some(LedgerTimes[ledger])
    /\ care_plans[1].last_review_date = None

Lifecycle ==
    { <<"Active", "UnderReview">>, <<"UnderReview", "Completed">>,
      <<"UnderReview", "Discontinued">> }

\* C16: the status of a plan changes only from Active to UnderReview, from
\* UnderReview to Completed or from UnderReview to Discontinued.
C16_PlanLifecycle ==
    [][\A p \in DOMAIN care_plans \cap DOMAIN care_plans' :
          \/ care_plans'[p].status = care_plans[p].status
          \/ <<care_plans[p].status, care_plans'[p].status>> \in Lifecycle]_vars

Commands == MutatingCommands \cup {"get_care_plan_summary"}

\* C17: a command whose required principal has not authorized it returns
\* the contract's Unauthorized error, whatever else is wrong with the call.
C17_UnauthorizedIsTyped ==
    (ret.op \in Commands /\ ~authorized) => IsErr(ret.result, "Unauthorized")

\* The commands that create a child of a plan.
ChildCommands ==
    {"add_care_goal", "add_intervention", "add_barrier",
     "schedule_care_plan_review", "assign_care_team_member"}

\* C18: an authorized command that creates a child of a plan that is not
\* stored fails with CarePlanNotFound; and the owning plan of every stored
\* goal, intervention, barrier, review and roster entry is a stored plan.
C18_ChildrenHaveStoredPlans ==
    /\ (ret.op \in ChildCommands /\ authorized
          /\ ret.args.care_plan_id \notin DOMAIN care_plans) =>
           IsErr(ret.result, "CarePlanNotFound")
    /\ \A g \in DOMAIN goals : goals[g].care_plan_id \in DOMAIN care_plans
    /\ \A x \in DOMAIN interventions :
           interventions[x].care_plan_id \in DOMAIN care_plans
    /\ \A b \in DOMAIN barriers : barriers[b].care_plan_id \in DOMAIN care_plans
    /\ \A r \in DOMAIN reviews : reviews[r].care_plan_id \in DOMAIN care_plans
    /\ \A p \in DOMAIN plan_care_team :
           /\ p \in DOMAIN care_plans
           /\ \A i \in 1..Len(plan_care_team[p]) :
                  plan_care_team[p][i].care_plan_id = p

\* A review for a plan that is not stored was refused while one plan and a
\* barrier of it are stored.
C18_Witness ==
    /\ ret.op = "schedule_care_plan_review"
    /\ IsErr(ret.result, "CarePlanNotFound")
    /\ ret.args.care_plan_id = 2
    /\ DOMAIN care_plans = {1}
    /\ DOMAIN barriers = {1}

IsPrefix(a, b) == Len(a) <= Len(b) /\ SubSeq(b, 1, Len(a)) = a

\* Every list of m is still in n, extended at its end at most.
OnlyAppended(m, n) ==
    \A k \in DOMAIN m : k \in DOMAIN n /\ IsPrefix(m[k], n[k])

\* C19: in every step the ids of the stored plans, goals, interventions,
\* barriers and reviews stay stored, and every index list and roster keeps
\* its entries, in order, as a prefix of what it becomes.
C19_NothingIsDeleted ==
    [][/\ DOMAIN care_plans \subseteq DOMAIN care_plans'
       /\ DOMAIN goals \subseteq DOMAIN goals'
       /\ DOMAIN interventions \subseteq DOMAIN interventions'
       /\ DOMAIN barriers \subseteq DOMAIN barriers'
       /\ DOMAIN reviews \subseteq DOMAIN reviews'
       /\ OnlyAppended(plan_goals, plan_goals')
       /\ OnlyAppended(plan_interventions, plan_interventions')
       /\ OnlyAppended(plan_barriers, plan_barriers')
       /\ OnlyAppended(plan_reviews, plan_reviews')
       /\ OnlyAppended(plan_care_team, plan_care_team')
       /\ OnlyAppended(patient_plans, patient_plans')]_vars

\* A second member joined the roster of a plan, after the first.
C19_Witness ==
    /\ ret.op = "assign_care_team_member"
    /\ IsOk(ret.result)
    /\ Len(Logged(plan_care_team, ret.args.care_plan_id)) = 2
    /\ plan_care_team[ret.args.care_plan_id][2].team_member = ret.args.team_member
    /\ plan_care_team[ret.args.care_plan_id][1].team_member # ret.args.team_member

\* C20: a get_care_plan_summary step, whatever it returns, leaves every
\* counter, record, index list and roster as it was; and when it follows an
\* authorized get_care_plan_summary of the same plan, itself authorized, it
\* returns what that one returned.
C20_SummaryIsReadOnly ==
    [][ret'.op = "get_care_plan_summary" =>
          /\ store' = store
          /\ (/\ ret.op = "get_care_plan_summary"
              /\ ret.args = ret'.args
              /\ authorized /\ authorized') => ret'.result = ret.result]_vars

\* A summary of a plan with a goal was returned in the second ledger.
C20_Witness ==
    /\ SummaryReturned
    /\ ledger = 2
    /\ Len(ret.result.val.active_goals) = 1
    /\ Len(ret.result.val.care_team) = 1

\* C21: evaluate_guideline on an id that was never registered fails with
\* GuidelineNotFound; on a registered id it returns applicable = TRUE when
\* the patient data hash is the criteria hash of the latest successful
\* registration of that id and applicable = FALSE for any other hash; and a
\* register_clinical_guideline without the admin's authorization stores
\* nothing.
C21_EvaluateMatchesLastRegistration ==
    /\ [](ret.op = "evaluate_guideline" =>
            LET history == Logged(log.registered, ret.args.guideline_id)
            IN  IF history = <<>>
                THEN IsErr(ret.result, "GuidelineNotFound")
                ELSE /\ IsOk(ret.result)
                     /\ ret.result.val.guideline_id = ret.args.guideline_id
                     /\ ret.result.val.applicable =
                            (ret.args.patient_data_hash = history[Len(history)]))
    /\ [][(ret'.op = "register_clinical_guideline" /\ ~authorized') =>
              /\ ~IsOk(ret'.result)
              /\ guideline_store' = guideline_store]_vars

\* A guideline registered with one hash and then with another applies to
\* the second hash.
C21_Witness ==
    /\ ret.op = "evaluate_guideline"
    /\ IsOk(ret.result)
    /\ ret.result.val.applicable
    /\ Logged(log.registered, ret.args.guideline_id) = <<Bytes32(0), Bytes32(1)>>
    /\ ret.args.patient_data_hash = Bytes32(1)

\* The step is a successful record_goal_progress.
ProgressStep == ret'.op = "record_goal_progress" /\ IsOk(ret'.result)

\* C22: a successful record_goal_progress on goal g makes g's record the
\* one it was with one entry more at the end of its progress list, the entry
\* carrying g's id and the patient, value, note and date of the call, and
\* changes no other goal and nothing else in the store; and no step of any
\* command changes, reorders or removes an entry that a list holds.
C22_ProgressIsAppended ==
    [][/\ ProgressStep =>
            LET g == ret'.args.goal_id
                entry == [goal_id |-> g,
                          patient_id |-> ret'.args.patient_id,
                          current_value |-> ret'.args.current_value,
                          progress_note |-> ret'.args.progress_note,
                          recorded_date |-> ret'.args.recorded_date]
            IN  /\ g \in DOMAIN goals
                /\ goals' = [goals EXCEPT ![g].progress_entries = Append(@, entry)]
                /\ UNCHANGED <<counters, care_plans, interventions, barriers,
                               reviews, plan_goals, plan_interventions,
                               plan_barriers, plan_reviews, plan_care_team,
                               patient_plans>>
       /\ \A g \in DOMAIN goals :
              /\ g \in DOMAIN goals'
              /\ IsPrefix(goals[g].progress_entries, goals'[g].progress_entries)]_vars

\* A goal with two different entries, in the order they were recorded, was
\* marked achieved.
C22_Witness ==
    /\ ret.op = "mark_goal_achieved"
    /\ IsOk(ret.result)
    /\ Len(goals[ret.args.goal_id].progress_entries) = 2
    /\ goals[ret.args.goal_id].progress_entries[1].current_value = "30min"
    /\ goals[ret.args.goal_id].progress_entries[2].current_value = "20min"

\* The fields of a plan, goal, barrier and review that no command is meant
\* to change.
PlanFixed(p) ==
    <<p.care_plan_id, p.patient_id, p.provider_id, p.plan_type, p.conditions,
      p.goals, p.start_date, p.review_frequency_days, p.created_at>>

GoalFixed(g) ==
    <<g.goal_id, g.care_plan_id, g.description, g.target_value, g.target_date,
      g.priority, g.created_by, g.created_at>>

BarrierFixed(b) ==
    <<b.barrier_id, b.care_plan_id, b.reporter, b.barrier_type, b.description,
      b.identified_date>>

ReviewFixed(r) ==
    <<r.review_id, r.care_plan_id, r.scheduled_by, r.review_date, r.review_type>>

\* C23: a successful add_intervention stores, under the id it returns, the
\* record of its arguments and the ledger time, and every stored
\* intervention record stays as it is in every step; so do the id, owner,
\* descriptive fields and creation time of every stored plan, goal, barrier
\* and review.
C23_FixedFieldsNeverChange ==
    [][/\ (ret'.op = "add_intervention" /\ IsOk(ret'.result)) =>
              /\ ret'.result.val \in DOMAIN interventions'
              /\ interventions'[ret'.result.val] =
                  [intervention_id |-> ret'.result.val,
                   care_plan_id |-> ret'.args.care_plan_id,
                   intervention_type |-> ret'.args.intervention_type,
                   description |-> ret'.args.description,
                   frequency |-> ret'.args.frequency,
                   responsible_party |-> ret'.args.responsible_party,
                   assigned_by |-> ret'.args.provider_id,
                   created_at |-> LedgerTimes[ledger]]
       /\ \A x \in DOMAIN interventions :
              x \in DOMAIN interventions' /\ interventions'[x] = interventions[x]
       /\ \A p \in DOMAIN care_plans :
              p \in DOMAIN care_plans'
              /\ PlanFixed(care_plans'[p]) = PlanFixed(care_plans[p])
       /\ \A g \in DOMAIN goals :
              g \in DOMAIN goals' /\ GoalFixed(goals'[g]) = GoalFixed(goals[g])
       /\ \A b \in DOMAIN barriers :
              b \in DOMAIN barriers'
              /\ BarrierFixed(barriers'[b]) = BarrierFixed(barriers[b])
       /\ \A r \in DOMAIN reviews :
              r \in DOMAIN reviews'
              /\ ReviewFixed(reviews'[r]) = ReviewFixed(reviews[r])]_vars

\* A second intervention was added in the second ledger and the first still
\* carries the time of the first ledger.
C23_Witness ==
    /\ ret.op = "add_intervention"
    /\ IsOk(ret.result)
    /\ ret.result.val = 2
    /\ interventions[1].created_at = LedgerTimes[1]
    /\ interventions[2].created_at = LedgerTimes[2]

\* C24: a goal has an achievement date, and outcome notes, exactly when its
\* status is Achieved; a barrier has a resolution, a resolution date and a
\* resolver exactly when it is resolved; a review has a notes hash, a
\* conducting principal and a conducted-at time exactly when it is
\* conducted, and while it is not it has continue_plan = TRUE and no
\* modifications.
C24_SetOnceFieldsFollowTheFlag ==
    /\ \A g \in DOMAIN goals :
           /\ (goals[g].achievement_date # None) <=> (goals[g].status = "Achieved")
           /\ (goals[g].outcome_notes # None) <=> (goals[g].status = "Achieved")
    /\ \A b \in DOMAIN barriers :
           /\ (barriers[b].resolution # None) <=> barriers[b].resolved
           /\ (barriers[b].resolution_date # None) <=> barriers[b].resolved
           /\ (barriers[b].resolved_by # None) <=> barriers[b].resolved
    /\ \A r \in DOMAIN reviews :
           /\ (reviews[r].review_notes_hash # None) <=> reviews[r].conducted
           /\ (reviews[r].conducted_by # None) <=> reviews[r].conducted
           /\ (reviews[r].conducted_at # None) <=> reviews[r].conducted
           /\ ~reviews[r].conducted =>
                  /\ reviews[r].continue_plan
                  /\ reviews[r].plan_modifications = <<>>

\* A conducted review with modifications and a resolved barrier are stored.
C24_Witness ==
    /\ \E r \in DOMAIN reviews :
           reviews[r].conducted /\ reviews[r].plan_modifications # <<>>
    /\ \E b \in DOMAIN barriers : barriers[b].resolved

\* C25: an authorized add_care_goal, add_intervention, add_barrier,
\* schedule_care_plan_review or assign_care_team_member that names a stored
\* plan succeeds, whatever the status of the plan.
C25_ChildrenOfAnyStoredPlan ==
    (ret.op \in ChildCommands /\ authorized
       /\ ret.args.care_plan_id \in DOMAIN care_plans) => IsOk(ret.result)

\* A review was scheduled for a plan that is Completed.
C25_Witness ==
    /\ ret.op = "schedule_care_plan_review"
    /\ IsOk(ret.result)
    /\ care_plans[ret.args.care_plan_id].status = "Completed"

\* Some review of plan p has been conducted.
HasConductedReview(p) ==
    \E r \in DOMAIN reviews : reviews[r].care_plan_id = p /\ reviews[r].conducted

\* C26: every stored plan has next_review_date equal to the exact sum of
\* review_frequency_days * 86400 and its last_review_date when it has one,
\* its start_date when it has none; and it has a last_review_date exactly
\* when a review of it has been conducted.
C26_NextReviewDateFollowsBase ==
    \A p \in DOMAIN care_plans :
        LET plan == care_plans[p]
            base == UnwrapOr(plan.last_review_date, plan.start_date)
        IN  /\ Wide(plan.next_review_date) =
                   ReviewDateWide(base, plan.review_frequency_days)
            /\ (plan.last_review_date # None) <=> HasConductedReview(p)

\* The list idx[p] of every parent p holds, in strictly increasing order,
\* ids of stored records whose owner is p, and every stored record is listed
\* exactly once over all the lists.
Indexed(idx, records, owner) ==
    /\ \A p \in DOMAIN idx :
           /\ \A i \in 1..Len(idx[p]) :
                  /\ idx[p][i] \in DOMAIN records
                  /\ records[idx[p][i]][owner] = p
           /\ \A i, j \in 1..Len(idx[p]) : i < j => idx[p][i] < idx[p][j]
    /\ \A c \in DOMAIN records :
           Cardinality({<<p, i>> \in UNION {{<<q, k>> : k \in 1..Len(idx[q])} :
                                               q \in DOMAIN idx} :
                           idx[p][i] = c}) = 1

\* C27: each of the plan-to-goals, plan-to-interventions, plan-to-barriers
\* and plan-to-reviews lists names, in strictly increasing id order, stored
\* children owned by that plan, every stored child being listed exactly
\* once; and the patient-to-plans lists do so for the stored plans.
C27_IndexesMatchRecords ==
    /\ Indexed(plan_goals, goals, "care_plan_id")
    /\ Indexed(plan_interventions, interventions, "care_plan_id")
    /\ Indexed(plan_barriers, barriers, "care_plan_id")
    /\ Indexed(plan_reviews, reviews, "care_plan_id")
    /\ Indexed(patient_plans, care_plans, "patient_id")

\* Two patients have a plan each and the second plan has a barrier.
C27_Witness ==
    /\ patient_plans = [x \in {"alice", "bob"} |-> IF x = "alice" THEN <<2>> ELSE <<1>>]
    /\ Logged(plan_barriers, 2) = <<1>>
    /\ Logged(plan_barriers, 1) = <<>>

\* C28: a plan whose status is Completed is Completed after every step; a
\* review of it that is conducted with continue_plan = TRUE sets its
\* last_review_date to the ledger time and its next_review_date to the exact
\* sum for that time, and leaves it Completed.
C28_CompletedIsAbsorbing ==
    [][\A p \in DOMAIN care_plans :
          care_plans[p].status = "Completed" =>
              /\ p \in DOMAIN care_plans'
              /\ care_plans'[p].status = "Completed"
              /\ (ConductsReviewOf(p) /\ ret'.args.continue_plan) =>
                     /\ care_plans'[p].last_review_date = Some(LedgerTimes[ledger])
                     /\ Wide(care_plans'[p].next_review_date) =
                            ReviewDateWide(LedgerTimes[ledger],
                                           care_plans[p].review_frequency_days)]_vars

\* A Completed plan was reviewed again, in the second ledger, with
\* continue_plan = TRUE.
C28_Witness ==
    /\ ret.op = "conduct_care_plan_review"
    /\ IsOk(ret.result)
    /\ ret.args.continue_plan
    /\ ledger = 2
    /\ LET plan == care_plans[reviews[ret.args.review_id].care_plan_id]
       IN  /\ plan.status = "Completed"
           /\ plan.last_review_date = Some(LedgerTimes[2])

\* C29: every stored goal is Active or Achieved, no invocation returns
\* GoalDiscontinued, and the status of a goal changes only from Active to
\* Achieved.
C29_GoalsAreActiveOrAchieved ==
    /\ [](/\ \A g \in DOMAIN goals : goals[g].status \in {"Active", "Achieved"}
          /\ ~IsErr(ret.result, "GoalDiscontinued"))
    /\ [][\A g \in DOMAIN goals \cap DOMAIN goals' :
             \/ goals'[g].status = goals[g].status
             \/ goals[g].status = "Active" /\ goals'[g].status = "Achieved"]_vars

\* One goal of two was marked achieved.
C29_Witness ==
    /\ ret.op = "mark_goal_achieved"
    /\ IsOk(ret.result)
    /\ \E g \in DOMAIN goals : goals[g].status = "Active"
    /\ goals[ret.args.goal_id].status = "Achieved"

====
